---- MODULE Spec2Model ----
(***************************************************************************)
(* Payroll engine of office_mgmt (app/salary/engine.py) over the Employee, *)
(* Attendance, Leave and Salary tables.                                     *)
(*                                                                         *)
(* Dates are proleptic Gregorian ordinals (datetime.date.toordinal()).     *)
(* Money is an integer number of cents (a Decimal quantized to 0.01).      *)
(* A nullable column holds <<>> for NULL and <<v>> for the value v.        *)
(* A table is the sequence of its rows in id order.                        *)
(***************************************************************************)
EXTENDS Integers, Sequences, FiniteSets, TLC

VARIABLES employee1, attendance1, leaves, salary, lastCall, sess, notifications, tasks

vars == <<employee1, attendance1, leaves, salary, lastCall, sess, notifications, tasks>>

NULL == <<>>

Some(v) == <<v>>

\* ------------------------------------------------------------------ bounds
NumEmployees == 2

MaxLeaves == 1

NumSessions == 2

\* the Salary rows up to which the calls over the months insert
MaxRows == 2

\* the days after 27 January 2025 that count_working_days is called on
MaxSpan == 21

\* the Attendance rows up to which check_in calls are started
MaxAttendance == 2

\* the Leave rows up to which the leave workflow creates requests
MaxLeaveRows == 2

\* the notification records up to which notify requests are made
MaxNotifs == 2

\* ------------------------------------------------------- calendar (stdlib)
IsLeap(y) == (y % 4 = 0) /\ ((y % 100 # 0) \/ (y % 400 = 0))

DaysInMonth(y, m) ==
    IF m = 2 THEN (IF IsLeap(y) THEN 29 ELSE 28)
    ELSE IF m \in {4, 6, 9, 11} THEN 30 ELSE 31

DaysBeforeYear(y) ==
    (y - 1) * 365 + ((y - 1) \div 4) - ((y - 1) \div 100) + ((y - 1) \div 400)

RECURSIVE DaysBeforeMonth(_, _)
DaysBeforeMonth(y, m) ==
    IF m <= 1 THEN 0 ELSE DaysBeforeMonth(y, m - 1) + DaysInMonth(y, m - 1)

\* date(y, m, d).toordinal()
MkDate(y, m, d) == DaysBeforeYear(y) + DaysBeforeMonth(y, m) + d

\* date.weekday(): Monday = 0 .. Sunday = 6
weekday(d) == (d + 6) % 7

\* date(year, month, 1) raises ValueError unless 1 <= month <= 12
ValidMonth(month) == month \in 1..12

first_last_day(year, month) ==
    <<MkDate(year, month, 1), MkDate(year, month, DaysInMonth(year, month))>>

RECURSIVE WorkingDaysLoop(_, _, _)
WorkingDaysLoop(cur, end, days) ==
    IF cur <= end
    THEN WorkingDaysLoop(cur + 1, end, IF weekday(cur) < 5 THEN days + 1 ELSE days)
    ELSE days

\* a loop that stops before the end day (while cur < end)
count_working_days_exclusive(start, end) == WorkingDaysLoop(start, end - 1, 0)

count_working_days(start, end) == WorkingDaysLoop(start, end, 0)

\* ------------------------------------------------------------ decimal math
Abs(n) == IF n < 0 THEN 0 - n ELSE n

\* the same with rounding=ROUND_HALF_EVEN: an exact half goes to the even cent
QuantizeHalfEven(num, den) ==
    LET a == Abs(num)
        q == a \div den
        r == IF 2 * (a % den) > den \/ (2 * (a % den) = den /\ q % 2 = 1)
             THEN q + 1 ELSE q
    IN  IF num < 0 THEN 0 - r ELSE r

\* (num / den).quantize(Decimal("0.01"), rounding=ROUND_HALF_UP) in cents:
\* the nearest integer to num/den, an exact half going away from zero
QuantizeHalfUp(num, den) ==
    LET q == (2 * Abs(num) + den) \div (2 * den)
    IN  IF num < 0 THEN 0 - q ELSE q

\* a missing salary read as the sentinel -0.01
decimal_salary_sentinel(emp) == IF emp.salary = NULL THEN 0 - 1 ELSE emp.salary[1]

\* _decimal(getattr(employee, "salary", 0) or 0): NULL and 0 both give 0
decimal_salary(emp) == IF emp.salary = NULL THEN 0 ELSE emp.salary[1]

\* ------------------------------------------------------------- leave types
\* str.lower() on the leave types the model uses
Lower(s) ==
    CASE s = "Unpaid"      -> "unpaid"
      [] s = "UNPAID"      -> "unpaid"
      [] s = "LOP"         -> "lop"
      [] s = "Without Pay" -> "without pay"
      [] s = "Casual"      -> "casual"
      [] s = "Sick"        -> "sick"
      [] OTHER             -> s

\* the comparison without .lower()
IsUnpaidType_case_sensitive(leave_type) ==
    leave_type \in {"unpaid", "lop", "without pay"}

\* a tuple of categories without "without pay"
IsUnpaidType_two_categories(leave_type) == Lower(leave_type) \in {"unpaid", "lop"}

\* (lv.leave_type or "").lower() in ("unpaid", "lop", "without pay"); leave_type
\* is a NOT NULL column, and "" is what `or ""` makes of None
IsUnpaidType(leave_type) == Lower(leave_type) \in {"unpaid", "lop", "without pay"}

\* -------------------------------------------------------------- month key
DigitStr(d) ==
    CASE d = 0 -> "0" [] d = 1 -> "1" [] d = 2 -> "2" [] d = 3 -> "3"
      [] d = 4 -> "4" [] d = 5 -> "5" [] d = 6 -> "6" [] d = 7 -> "7"
      [] d = 8 -> "8" [] OTHER -> "9"

RECURSIVE IntStr(_)
IntStr(n) == IF n < 10 THEN DigitStr(n) ELSE IntStr(n \div 10) \o DigitStr(n % 10)

zfill2(s) == IF Len(s) < 2 THEN "0" \o s ELSE s

\* the key without .zfill(2)
month_str_unpadded(year, month) == IntStr(year) \o "-" \o IntStr(month)

\* f"{year}-{str(month).zfill(2)}"
month_str(year, month) == IntStr(year) \o "-" \o zfill2(IntStr(month))

\* ------------------------------------------------ calculate_for_employee
\* the count without the filter on status
present_count_any_status(att, employee_id, first, last) ==
    Cardinality({i \in DOMAIN att :
        /\ att[i].employee_id = employee_id
        /\ att[i].date >= first
        /\ att[i].date <= last})

\* db.query(Attendance).filter(employee_id, first <= date <= last,
\*                             status == "PRESENT").count()
present_count(att, employee_id, first, last) ==
    Cardinality({i \in DOMAIN att :
        /\ att[i].employee_id = employee_id
        /\ att[i].date >= first
        /\ att[i].date <= last
        /\ att[i].status = "PRESENT"})

\* the query without the filter on status
approved_leaves_any_status(lvs, employee_id, first, last) ==
    SelectSeq(lvs, LAMBDA lv :
        /\ lv.employee_id = employee_id
        /\ lv.from_date <= last
        /\ lv.to_date >= first)

\* db.query(Leave).filter(employee_id, status == "Approved",
\*                        from_date <= last, to_date >= first).all()
approved_leaves(lvs, employee_id, first, last) ==
    SelectSeq(lvs, LAMBDA lv :
        /\ lv.employee_id = employee_id
        /\ lv.status = "Approved"
        /\ lv.from_date <= last
        /\ lv.to_date >= first)

\* a loop that counts every weekday of the leave, without first <= cur <= last
RECURSIVE LeaveDayLoop_unclipped(_, _, _, _, _, _)
LeaveDayLoop_unclipped(cur, e, first, last, unpaid, acc) ==
    IF cur <= e
    THEN LeaveDayLoop_unclipped(cur + 1, e, first, last, unpaid,
            IF weekday(cur) < 5
            THEN <<acc[1] + 1, IF unpaid THEN acc[2] + 1 ELSE acc[2]>>
            ELSE acc)
    ELSE acc

\* the while loop over the days of one leave; acc = <<leave_days, unpaid_leave_days>>
RECURSIVE LeaveDayLoop(_, _, _, _, _, _)
LeaveDayLoop(cur, e, first, last, unpaid, acc) ==
    IF cur <= e
    THEN LeaveDayLoop(cur + 1, e, first, last, unpaid,
            IF first <= cur /\ cur <= last /\ weekday(cur) < 5
            THEN <<acc[1] + 1, IF unpaid THEN acc[2] + 1 ELSE acc[2]>>
            ELSE acc)
    ELSE acc

\* the for loop over the approved leaves
RECURSIVE LeaveLoop(_, _, _, _, _)
LeaveLoop(ls, i, first, last, acc) ==
    IF i > Len(ls) THEN acc
    ELSE LeaveLoop(ls, i + 1, first, last,
            LeaveDayLoop(ls[i].from_date, ls[i].to_date, first, last,
                         IsUnpaidType(ls[i].leave_type), acc))

Max(a, b) == IF a >= b THEN a ELSE b

Min(a, b) == IF a <= b THEN a ELSE b

\* the sum without the cap of line 68
paid_days_uncapped(att_count, leave_days, unpaid_leave_days, total_working_days) ==
    att_count + Max(0, leave_days - unpaid_leave_days)

\* the present days alone, without the paid leave days of line 67
paid_days_present_only(att_count, leave_days, unpaid_leave_days, total_working_days) ==
    Min(att_count, total_working_days)

paid_days_of(att_count, leave_days, unpaid_leave_days, total_working_days) ==
    Min(att_count + Max(0, leave_days - unpaid_leave_days), total_working_days)

\* the difference without the clamp of lines 80-81
net_salary_unclamped(earned, deduction) == earned - deduction

net_salary_of(earned, deduction) ==
    IF earned - deduction < 0 THEN 0 ELSE earned - deduction

\* lines 67-81: the figures from the counts (an operator's arguments are
\* evaluated once, so every stage of the calculation is an operator)
figures_of(twd, att_count, leave_days, unpaid_leave_days, paid_days, base_salary, deduction, earned) ==
    [total_working_days |-> twd,
     att_count          |-> att_count,
     leave_days         |-> leave_days,
     unpaid_leave_days  |-> unpaid_leave_days,
     paid_days          |-> paid_days,
     base_salary        |-> base_salary,
     deduction          |-> deduction,
     earned             |-> earned,
     net_salary         |-> net_salary_of(earned, deduction)]

\* an else branch that sets earned to 0.00 as well
figures_from_counts_zero_earned(total_working_days, att_count, lv, paid_days, base_salary) ==
    figures_of(total_working_days, att_count, lv[1], lv[2], paid_days, base_salary,
               IF total_working_days > 0
               THEN QuantizeHalfUp(base_salary * lv[2], total_working_days)
               ELSE 0,
               IF total_working_days > 0
               THEN QuantizeHalfUp(base_salary * paid_days, total_working_days)
               ELSE 0)

figures_from_counts(total_working_days, att_count, lv, paid_days, base_salary) ==
    figures_of(total_working_days, att_count, lv[1], lv[2], paid_days, base_salary,
               IF total_working_days > 0
               THEN QuantizeHalfUp(base_salary * lv[2], total_working_days)
               ELSE 0,
               IF total_working_days > 0
               THEN QuantizeHalfUp(base_salary * paid_days, total_working_days)
               ELSE base_salary)

figures_from_queries(total_working_days, att_count, lv, base_salary) ==
    figures_from_counts(total_working_days, att_count, lv,
                        paid_days_of(att_count, lv[1], lv[2], total_working_days),
                        base_salary)

\* the local variables of calculate_for_employee up to line 83;
\* total_working_days is a parameter so that the zero-working-day branch is stated
FiguresWith(att, lvs, emp, first, last, total_working_days) ==
    figures_from_queries(total_working_days,
                         present_count(att, emp.id, first, last),
                         LeaveLoop(approved_leaves(lvs, emp.id, first, last), 1,
                                   first, last, <<0, 0>>),
                         decimal_salary(emp))

\* lines 35-36: first, last and total_working_days of a month
month_bounds(year, month) ==
    LET fl == first_last_day(year, month)
    IN  <<fl[1], fl[2], count_working_days(fl[1], fl[2])>>

\* the same for the months of 2025, evaluated once
MonthBounds2025 == [m \in 1..12 |-> month_bounds(2025, m)]

FiguresIn(att, lvs, emp, mb) == FiguresWith(att, lvs, emp, mb[1], mb[2], mb[3])

Figures(att, lvs, emp, year, month) ==
    FiguresIn(att, lvs, emp,
              IF year = 2025 THEN MonthBounds2025[month] ELSE month_bounds(year, month))

\* a lookup that never finds the row
existing_id_never(sal, employee_id, mstr) == 0

\* db.query(Salary).filter_by(employee_id=..., month=month_str).first():
\* the id of the first matching row, 0 when there is none
existing_id(sal, employee_id, mstr) ==
    LET hits == {i \in DOMAIN sal :
                    sal[i].employee_id = employee_id /\ sal[i].month = mstr}
    IN  IF hits = {} THEN 0 ELSE CHOOSE i \in hits : \A j \in hits : i <= j

\* an update that adds the new deduction to the stored one
upsert_accumulating(sal, existing, employee_id, mstr, fig) ==
    IF existing # 0
    THEN [sal EXCEPT ![existing].base_salary = fig.base_salary,
                     ![existing].deductions  = @ + fig.deduction,
                     ![existing].net_salary  = fig.net_salary]
    ELSE Append(sal, [id          |-> Len(sal) + 1,
                      employee_id |-> employee_id,
                      month       |-> mstr,
                      base_salary |-> fig.base_salary,
                      deductions  |-> fig.deduction,
                      net_salary  |-> fig.net_salary,
                      slip_file   |-> NULL])

\* an update that also resets slip_file, as the insert does
upsert_resetting_slip(sal, existing, employee_id, mstr, fig) ==
    IF existing # 0
    THEN [sal EXCEPT ![existing].base_salary = fig.base_salary,
                     ![existing].deductions  = fig.deduction,
                     ![existing].net_salary  = fig.net_salary,
                     ![existing].slip_file   = NULL]
    ELSE Append(sal, [id          |-> Len(sal) + 1,
                      employee_id |-> employee_id,
                      month       |-> mstr,
                      base_salary |-> fig.base_salary,
                      deductions  |-> fig.deduction,
                      net_salary  |-> fig.net_salary,
                      slip_file   |-> NULL])

\* the if existing / else branches followed by db.commit()
upsert(sal, existing, employee_id, mstr, fig) ==
    IF existing # 0
    THEN [sal EXCEPT ![existing].base_salary = fig.base_salary,
                     ![existing].deductions  = fig.deduction,
                     ![existing].net_salary  = fig.net_salary]
    ELSE Append(sal, [id          |-> Len(sal) + 1,
                      employee_id |-> employee_id,
                      month       |-> mstr,
                      base_salary |-> fig.base_salary,
                      deductions  |-> fig.deduction,
                      net_salary  |-> fig.net_salary,
                      slip_file   |-> NULL])

\* the id of the row calculate_for_employee returns
written_id(sal, existing) == IF existing # 0 THEN existing ELSE Len(sal) + 1

\* -------------------------------------------------- run_engine_for_month
\* the file name the PDF step records, by the shape of the generator's result
pdf_fname(shape, row_id) ==
    CASE shape = "tuple" -> "slip.pdf"
      [] shape = "bytes" -> "salary_" \o IntStr(row_id) \o "_t.pdf"
      [] OTHER           -> "res"

\* a PDF step whose generator or file error leaves the loop
pdf_step_propagating(st, rid, emp, i, cfg) ==
    IF ~(cfg.generate_pdf /\ cfg.pdf_generator) THEN st
    ELSE IF cfg.pdfRaiseAt = i \/ cfg.shape = "bytes_oserror"
         THEN [st EXCEPT !.failedAt = i]
    ELSE LET sal1 == [st.sal EXCEPT ![rid].slip_file =
                                        Some(pdf_fname(cfg.shape, rid))]
         IN  [st EXCEPT !.sal = sal1,
                        !.emails = IF cfg.email_sender /\ emp.email # ""
                                   THEN Append(@, [to        |-> emp.email,
                                                   month     |-> sal1[rid].month,
                                                   slip_file |-> sal1[rid].slip_file,
                                                   raised    |-> cfg.emailRaiseAt = i])
                                   ELSE @]

\* a PDF step that assigns slip_file before it writes the bytes, so that the
\* name of a file that was not written reaches the table
pdf_step_recording_unwritten(st, rid, emp, i, cfg) ==
    IF ~(cfg.generate_pdf /\ cfg.pdf_generator) THEN st
    ELSE IF cfg.pdfRaiseAt = i THEN st
    ELSE LET sal1 == [st.sal EXCEPT ![rid].slip_file =
                                        Some(pdf_fname(cfg.shape, rid))]
         IN  IF cfg.shape = "bytes_oserror" THEN [st EXCEPT !.sal = sal1]
             ELSE [st EXCEPT !.sal = sal1,
                             !.emails = IF cfg.email_sender /\ emp.email # ""
                                        THEN Append(@, [to        |-> emp.email,
                                                        month     |-> sal1[rid].month,
                                                        slip_file |-> sal1[rid].slip_file,
                                                        raised    |-> cfg.emailRaiseAt = i])
                                        ELSE @]

\* a PDF step that calls the sender before slip_file is assigned and committed
pdf_step_email_first(st, rid, emp, i, cfg) ==
    IF ~(cfg.generate_pdf /\ cfg.pdf_generator) THEN st
    ELSE IF cfg.pdfRaiseAt = i \/ cfg.shape = "bytes_oserror" THEN st
    ELSE LET sal1 == [st.sal EXCEPT ![rid].slip_file =
                                        Some(pdf_fname(cfg.shape, rid))]
         IN  [st EXCEPT !.sal = sal1,
                        !.emails = IF cfg.email_sender /\ emp.email # ""
                                   THEN Append(@, [to        |-> emp.email,
                                                   month     |-> sal1[rid].month,
                                                   slip_file |-> st.sal[rid].slip_file,
                                                   raised    |-> cfg.emailRaiseAt = i])
                                   ELSE @]

\* lines 114-141 for the employee at position i, on the row rid just calculated.
\* st = [sal, results, emails, failedAt]
pdf_step(st, rid, emp, i, cfg) ==
    IF ~(cfg.generate_pdf /\ cfg.pdf_generator) THEN st
    ELSE IF cfg.pdfRaiseAt = i \/ cfg.shape = "bytes_oserror" THEN st
    ELSE LET sal1 == [st.sal EXCEPT ![rid].slip_file =
                                        Some(pdf_fname(cfg.shape, rid))]
         IN  [st EXCEPT !.sal = sal1,
                        !.emails = IF cfg.email_sender /\ emp.email # ""
                                   THEN Append(@, [to        |-> emp.email,
                                                   month     |-> sal1[rid].month,
                                                   slip_file |-> sal1[rid].slip_file,
                                                   raised    |-> cfg.emailRaiseAt = i])
                                   ELSE @]

\* a failure that ends the loop without an exception
on_calc_failure_swallowed(st, i) == st

\* an exception of calculate_for_employee at position i leaves the loop and
\* the function: nothing catches it
on_calc_failure(st, i) == [st EXCEPT !.failedAt = i]

\* the for loop of run_engine_for_month from position i on
RECURSIVE run_loop(_, _, _, _, _, _, _, _)
run_loop(emps, att, lvs, st, i, year, month, cfg) ==
    IF i > Len(emps) \/ st.failedAt # 0 THEN st
    ELSE IF ~ValidMonth(month) \/ cfg.dbFailAt = i
         THEN on_calc_failure(st, i)
    ELSE LET emp  == emps[i]
             mstr == month_str(year, month)
             ex   == existing_id(st.sal, emp.id, mstr)
             rid  == written_id(st.sal, ex)
             st1  == [st EXCEPT !.sal = upsert(@, ex, emp.id, mstr,
                                               Figures(att, lvs, emp, year, month))]
             st2  == pdf_step(st1, rid, emp, i, cfg)
             st3  == [st2 EXCEPT !.results = Append(@, st2.sal[rid])]
         IN  run_loop(emps, att, lvs, st3, i + 1, year, month, cfg)

\* ----------------------------------------------------------------- inputs
\* a day of the year 2025
D(m, d) == MkDate(2025, m, d)

Employees == 1..NumEmployees

\* PRESENT rows of one employee on the working days of [from, to]
RECURSIVE present_rows(_, _, _)
present_rows(employee_id, from, to) ==
    IF from > to THEN <<>>
    ELSE (IF weekday(from) < 5
          THEN <<[employee_id |-> employee_id, date |-> from, status |-> "PRESENT"]>>
          ELSE <<>>) \o present_rows(employee_id, from + 1, to)

\* rows with the other statuses, on a weekend and outside February
mixed_rows(employee_id) ==
    <<[employee_id |-> employee_id, date |-> D(1, 31), status |-> "PRESENT"],
      [employee_id |-> employee_id, date |-> D(2, 3),  status |-> "PRESENT"],
      [employee_id |-> employee_id, date |-> D(2, 4),  status |-> "ABSENT"],
      [employee_id |-> employee_id, date |-> D(2, 5),  status |-> "WFH"],
      [employee_id |-> employee_id, date |-> D(2, 8),  status |-> "PRESENT"],
      [employee_id |-> employee_id, date |-> D(3, 3),  status |-> "PRESENT"]>>

\* number the rows of a table in insertion order
WithIds(rows) ==
    [i \in DOMAIN rows |->
        [id          |-> i,
         employee_id |-> rows[i].employee_id,
         date        |-> rows[i].date,
         check_in    |-> Some(9),
         check_out   |-> NULL,
         status      |-> rows[i].status]]

AttendanceProfiles ==
    { <<>>,
      present_rows(1, D(2, 10), D(2, 28)),
      present_rows(1, D(2, 13), D(2, 28)),
      present_rows(1, D(2, 1), D(2, 28)),
      mixed_rows(1) }

LeaveRanges ==
    { <<D(2, 3), D(2, 7)>>,      \* Monday to Friday
      <<D(1, 30), D(2, 4)>>,     \* over the month boundary and a weekend
      <<D(2, 7), D(2, 10)>>,     \* Friday to Monday
      <<D(2, 3), D(2, 12)>>,     \* eight working days
      <<D(2, 27), D(3, 4)>>,     \* over the end of the month and a weekend
      <<D(2, 1), D(2, 2)>> }     \* a weekend

LeaveTypes == {"Unpaid", "UNPAID", "LOP", "without pay", "Without Pay", "Casual", "Sick", ""}

SalaryValues == {NULL, Some(3000000), Some(10), Some(0 - 100000)}

PdfShapes == {"tuple", "bytes", "bytes_oserror", "str"}

NoCall ==
    [op |-> "init", employee_id |-> 0, year |-> 0, month |-> 0, raised |-> FALSE,
     locals |-> NULL, row |-> NULL, prev_row |-> NULL, repeat |-> FALSE,
     before |-> <<>>, results |-> <<>>, failedAt |-> 0, emails |-> <<>>,
     emps |-> <<>>, cfg |-> NULL, args |-> <<>>, ret |-> NULL]

EnvCall == [NoCall EXCEPT !.op = "env"]

IdleSession == [pc |-> "idle", employee_id |-> 0, year |-> 0, month |-> 0,
                locals |-> NULL, existing |-> 0, row |-> 0,
                op |-> "", today |-> 0, seen |-> NULL]

Sessions == 1..NumSessions

\* ------------------------------------------------------------- operations
\* a call that assigns the parsed base back to employee.salary, which the
\* commit of line 99 then writes to the employee1 table
calculate_for_employee_storing_base(idx, year, month, dbfail) ==
    LET emp  == employee1[idx]
        mstr == month_str(year, month)
        fig  == Figures(attendance1, leaves, emp, year, month)
        ex   == existing_id(salary, emp.id, mstr)
        rid  == written_id(salary, ex)
        call == [NoCall EXCEPT !.op = "calc", !.employee_id = emp.id,
                               !.year = year, !.month = month]
    IN  /\ IF ~ValidMonth(month) \/ dbfail
           THEN /\ salary' = salary
                /\ employee1' = employee1
                /\ lastCall' = [call EXCEPT !.raised = TRUE]
           ELSE /\ salary' = upsert(salary, ex, emp.id, mstr, fig)
                /\ employee1' = [employee1 EXCEPT ![idx].salary = Some(fig.base_salary)]
                /\ lastCall' = [call EXCEPT !.locals = Some(fig),
                                            !.row = Some(salary'[rid]),
                                            !.prev_row = IF ex # 0 THEN Some(salary[ex]) ELSE NULL]
        /\ UNCHANGED <<attendance1, leaves, sess, notifications, tasks>>

\* calculate_for_employee(db, employee1[idx], year, month) as one call;
\* dbfail: the database raises in a query or in db.commit()
calculate_for_employee(idx, year, month, dbfail) ==
    LET emp  == employee1[idx]
        mstr == month_str(year, month)
        fig  == Figures(attendance1, leaves, emp, year, month)
        ex   == existing_id(salary, emp.id, mstr)
        rid  == written_id(salary, ex)
        rep  == /\ lastCall.op = "calc"
                /\ ~lastCall.raised
                /\ lastCall.employee_id = emp.id
                /\ lastCall.year = year
                /\ lastCall.month = month
        call == [NoCall EXCEPT !.op = "calc", !.employee_id = emp.id,
                               !.year = year, !.month = month]
    IN  /\ IF ~ValidMonth(month) \/ dbfail
           THEN /\ salary' = salary
                /\ lastCall' = [call EXCEPT !.raised = TRUE]
           ELSE /\ salary' = upsert(salary, ex, emp.id, mstr, fig)
                /\ lastCall' = [call EXCEPT !.locals = Some(fig),
                                            !.row = Some(salary'[rid]),
                                            !.repeat = rep,
                                            !.prev_row = IF ex # 0 THEN Some(salary[ex]) ELSE NULL]
        /\ UNCHANGED <<employee1, attendance1, leaves, sess, notifications, tasks>>

\* calculate_for_employee with count_working_days replaced by a stub that
\* returns stub: lines 35 and 37-101 as they are, line 36 giving stub
calculate_with_working_days(idx, year, month, stub) ==
    LET emp  == employee1[idx]
        fl   == first_last_day(year, month)
        mstr == month_str(year, month)
        fig  == FiguresWith(attendance1, leaves, emp, fl[1], fl[2], stub)
        ex   == existing_id(salary, emp.id, mstr)
        rid  == written_id(salary, ex)
        call == [NoCall EXCEPT !.op = "calc", !.employee_id = emp.id,
                               !.year = year, !.month = month, !.args = <<stub>>]
    IN  /\ ValidMonth(month)
        /\ salary' = upsert(salary, ex, emp.id, mstr, fig)
        /\ lastCall' = [call EXCEPT !.locals = Some(fig),
                                    !.row = Some(salary'[rid]),
                                    !.prev_row = IF ex # 0 THEN Some(salary[ex]) ELSE NULL]
        /\ UNCHANGED <<employee1, attendance1, leaves, sess, notifications, tasks>>

\* count_working_days(start, end) as one call
call_count_working_days(start, end) ==
    /\ lastCall' = [NoCall EXCEPT !.op = "count_working_days",
                                  !.args = <<start, end>>,
                                  !.ret = Some(count_working_days(start, end))]
    /\ UNCHANGED <<employee1, attendance1, leaves, salary, sess, notifications, tasks>>

\* a query that leaves out the employees without a salary
query_employees_with_salary(tbl) == SelectSeq(tbl, LAMBDA e : e.salary # NULL)

\* db.query(Employee).all(): every row of the table
query_employees(tbl) == tbl

\* run_engine_for_month(db, year, month, generate_pdf, pdf_generator, email_sender)
\* as one call; cfg says what the collaborators and the database do
run_engine_for_month(year, month, cfg) ==
    LET st == run_loop(query_employees(employee1), attendance1, leaves,
                       [sal |-> salary, results |-> <<>>, emails |-> <<>>, failedAt |-> 0],
                       1, year, month, cfg)
    IN  /\ salary' = st.sal
        /\ lastCall' = [NoCall EXCEPT !.op = "run", !.year = year, !.month = month,
                                      !.raised = (st.failedAt # 0),
                                      !.failedAt = st.failedAt,
                                      !.results = st.results,
                                      !.emails = st.emails,
                                      !.cfg = Some(cfg)]
        /\ UNCHANGED <<employee1, attendance1, leaves, sess, notifications, tasks>>

\* employees/router.py update_employee: the salary field
update_employee(idx, salary_val) ==
    /\ employee1' = [employee1 EXCEPT ![idx].salary = salary_val]
    /\ lastCall' = EnvCall
    /\ UNCHANGED <<attendance1, leaves, salary, sess, notifications, tasks>>

\* leaves/router.py create_leave: 400 when to_date < from_date or when a leave of
\* the user that is neither Cancelled nor Rejected overlaps the request
create_leave(user_id, leave_type, from_date, to_date) ==
    LET conflicting == {i \in DOMAIN leaves :
                            /\ leaves[i].employee_id = user_id
                            /\ leaves[i].status \notin {"Cancelled", "Rejected"}
                            /\ leaves[i].from_date <= to_date
                            /\ leaves[i].to_date >= from_date}
    IN  /\ IF to_date < from_date \/ conflicting # {}
           THEN leaves' = leaves
           ELSE leaves' = Append(leaves, [id          |-> Len(leaves) + 1,
                                          employee_id |-> user_id,
                                          leave_type  |-> leave_type,
                                          from_date   |-> from_date,
                                          to_date     |-> to_date,
                                          status      |-> "Pending"])
        /\ lastCall' = EnvCall
        /\ UNCHANGED <<employee1, attendance1, salary, sess, notifications, tasks>>

\* leaves/router.py approve_leave (admin)
approve_leave(leave_id) ==
    /\ leave_id \in DOMAIN leaves
    /\ leaves' = [leaves EXCEPT ![leave_id].status = "Approved"]
    /\ lastCall' = EnvCall
    /\ UNCHANGED <<employee1, attendance1, salary, sess, notifications, tasks>>

\* leaves/router.py reject_leave (admin)
reject_leave(leave_id) ==
    /\ leave_id \in DOMAIN leaves
    /\ leaves' = [leaves EXCEPT ![leave_id].status = "Rejected"]
    /\ lastCall' = EnvCall
    /\ UNCHANGED <<employee1, attendance1, salary, sess, notifications, tasks>>

\* leaves/router.py cancel_leave (admin or owner)
cancel_leave(leave_id) ==
    /\ leave_id \in DOMAIN leaves
    /\ leaves' = [leaves EXCEPT ![leave_id].status = "Cancelled"]
    /\ lastCall' = EnvCall
    /\ UNCHANGED <<employee1, attendance1, salary, sess, notifications, tasks>>

\* ------------------------------------------------------------ run inputs
RunConfig(gp, pg, shape, pra, es, era, dfa) ==
    [generate_pdf |-> gp, pdf_generator |-> pg, shape |-> shape, pdfRaiseAt |-> pra,
     email_sender |-> es, emailRaiseAt |-> era, dbFailAt |-> dfa]

\* the behaviours of the collaborators and the database in one run: no PDF step,
\* a PDF step of each result shape, a generator, a sender or the database
\* failing at one employee, and two failures in the same run
RunConfigs ==
    {RunConfig(FALSE, TRUE, "tuple", 0, TRUE, 0, 0),
     RunConfig(TRUE, FALSE, "tuple", 0, TRUE, 0, 0),
     RunConfig(FALSE, FALSE, "tuple", 0, FALSE, 0, 0)}
    \cup
    {RunConfig(TRUE, TRUE, sh, 0, es, 0, 0) : sh \in PdfShapes, es \in BOOLEAN}
    \cup
    {RunConfig(TRUE, TRUE, "tuple", pra, TRUE, 0, 0) : pra \in Employees}
    \cup
    {RunConfig(TRUE, TRUE, "tuple", 0, TRUE, era, 0) : era \in Employees}
    \cup
    {RunConfig(gp, gp, "tuple", 0, gp, 0, dfa) : gp \in BOOLEAN, dfa \in Employees}
    \cup
    {RunConfig(TRUE, TRUE, "tuple", 1, TRUE, 0, NumEmployees),
     RunConfig(TRUE, TRUE, "bytes", 1, TRUE, 1, 0)}

\* a selection of them for the runs between calculations
FewRunConfigs ==
    {RunConfig(FALSE, FALSE, "tuple", 0, FALSE, 0, dfa) : dfa \in {0, NumEmployees}}
    \cup
    {RunConfig(TRUE, TRUE, "tuple", pra, TRUE, 0, 0) : pra \in {0, 1}}

TwoEmployees(s1, s2) ==
    [i \in Employees |->
        [id     |-> i,
         salary |-> IF i = 1 THEN s1 ELSE s2,
         email  |-> IF i = 2 THEN "" ELSE "e" \o IntStr(i) \o "@x.io"]]

\* ---------------------------------------------- Spec: calls and data changes
Init ==
    /\ employee1 = TwoEmployees(Some(3000000), NULL)
    /\ attendance1 = WithIds(present_rows(1, D(2, 17), D(2, 28)) \o mixed_rows(2))
    /\ leaves = <<>>
    /\ salary = <<>>
    /\ lastCall = NoCall
    /\ sess = [s \in Sessions |-> IdleSession]
    /\ notifications = <<>>
    /\ tasks = <<>>

\* the calls of calculate_for_employee: every employee for February 2025, and
\* for the first employee the invalid month 13 and a database failure
CalcInputs ==
    {<<idx, 2025, 2, FALSE>> : idx \in Employees}
    \cup {<<1, 2025, 13, FALSE>>, <<1, 2025, 2, TRUE>>}

Calculate ==
    \E c \in CalcInputs : calculate_for_employee(c[1], c[2], c[3], c[4])

RunFew ==
    \E cfg \in FewRunConfigs : run_engine_for_month(2025, 2, cfg)

UpdateEmployee ==
    \E v \in {Some(3000000), Some(10)} : update_employee(1, v)

CreateLeave ==
    /\ Len(leaves) < MaxLeaves
    /\ create_leave(1, "Unpaid", D(2, 3), D(2, 7))

ApproveLeave == \E id \in 1..MaxLeaves : approve_leave(id)

RejectLeave == \E id \in 1..MaxLeaves : reject_leave(id)

CancelLeave == \E id \in 1..MaxLeaves : cancel_leave(id)

Next ==
    \/ Calculate
    \/ RunFew
    \/ UpdateEmployee
    \/ CreateLeave
    \/ ApproveLeave
    \/ RejectLeave
    \/ CancelLeave

Spec == Init /\ [][Next]_vars

\* ------------------------------- SpecCalc: the calculation over its inputs
LeaveRow(id, employee_id, leave_type, range, status) ==
    [id |-> id, employee_id |-> employee_id, leave_type |-> leave_type,
     from_date |-> range[1], to_date |-> range[2], status |-> status]

\* no leave, one leave of the first employee, or an approved unpaid week
\* followed by a second approved leave of either employee
LeaveTables ==
    {<<>>}
    \cup {<<LeaveRow(1, 1, t, r, st)>> :
            t \in LeaveTypes, r \in LeaveRanges, st \in {"Approved", "Pending"}}
    \cup {<<LeaveRow(1, 1, "Unpaid", <<D(2, 3), D(2, 7)>>, "Approved"),
            LeaveRow(2, e, t, r, "Approved")>> :
            e \in {1, 2}, t \in {"Casual", "LOP"}, r \in LeaveRanges}

InitCalc ==
    /\ employee1 \in {TwoEmployees(s1, NULL) : s1 \in SalaryValues}
    /\ attendance1 \in {WithIds(rows \o mixed_rows(2)) : rows \in AttendanceProfiles}
    /\ leaves \in LeaveTables
    /\ salary = <<>>
    /\ lastCall = NoCall
    /\ sess = [s \in Sessions |-> IdleSession]
    /\ notifications = <<>>
    /\ tasks = <<>>

CalculateFirst ==
    \E month \in {2, 3} : calculate_for_employee(1, 2025, month, FALSE)

NextCalc == CalculateFirst

SpecCalc == InitCalc /\ [][NextCalc]_vars

\* ------------------------------------ SpecRun: the batch runner's outcomes
InitRun ==
    /\ employee1 \in {TwoEmployees(Some(3000000), s2) : s2 \in {NULL, Some(10)}}
    /\ attendance1 = WithIds(present_rows(1, D(2, 24), D(2, 28)) \o mixed_rows(2))
    /\ leaves \in {<<>>, <<LeaveRow(1, 1, "Unpaid", <<D(2, 3), D(2, 7)>>, "Approved")>>}
    /\ salary = <<>>
    /\ lastCall = NoCall
    /\ sess = [s \in Sessions |-> IdleSession]
    /\ notifications = <<>>
    /\ tasks = <<>>

RunAll ==
    \/ \E cfg \in RunConfigs : run_engine_for_month(2025, 2, cfg)
    \/ run_engine_for_month(2025, 13, RunConfig(TRUE, TRUE, "tuple", 0, TRUE, 0, 0))

NextRun == RunAll

SpecRun == InitRun /\ [][NextRun]_vars

\* ------------------- SpecConc: calculate_for_employee in concurrent sessions
\* lines 35-83: the queries on attendance and leaves and the arithmetic
conc_begin(s, idx, year, month) ==
    /\ sess[s].pc = "idle"
    /\ ValidMonth(month)
    /\ sess' = [sess EXCEPT ![s] =
                    [pc          |-> "queried",
                     employee_id |-> employee1[idx].id,
                     year        |-> year,
                     month       |-> month,
                     locals      |-> Some(Figures(attendance1, leaves, employee1[idx],
                                                  year, month)),
                     existing    |-> 0,
                     row         |-> 0,
                     op          |-> "calc",
                     today       |-> 0,
                     seen        |-> NULL]]
    /\ UNCHANGED <<employee1, attendance1, leaves, salary, lastCall, notifications, tasks>>

\* line 84: the lookup of the existing row
conc_lookup(s) ==
    /\ sess[s].pc = "queried"
    /\ sess' = [sess EXCEPT ![s].pc = "found",
                            ![s].existing = existing_id(salary, sess[s].employee_id,
                                                month_str(sess[s].year, sess[s].month))]
    /\ UNCHANGED <<employee1, attendance1, leaves, salary, lastCall, notifications, tasks>>

\* lines 86-101: the update or the insert, committed
conc_commit(s) ==
    /\ sess[s].pc = "found"
    /\ salary' = upsert(salary, sess[s].existing, sess[s].employee_id,
                        month_str(sess[s].year, sess[s].month), sess[s].locals[1])
    /\ sess' = [sess EXCEPT ![s].pc = "done",
                            ![s].row = written_id(salary, sess[s].existing)]
    /\ UNCHANGED <<employee1, attendance1, leaves, lastCall, notifications, tasks>>

InitConc ==
    /\ employee1 \in {TwoEmployees(s1, NULL) : s1 \in {Some(3000000), Some(10)}}
    /\ attendance1 = WithIds(present_rows(1, D(2, 24), D(2, 28)) \o mixed_rows(2))
    /\ leaves \in {<<>>, <<LeaveRow(1, 1, "Unpaid", <<D(2, 3), D(2, 7)>>, "Approved")>>}
    /\ salary \in {<<>>,
                   upsert(<<>>, 0, 1, month_str(2025, 2),
                          Figures(attendance1, leaves, employee1[1], 2025, 2))}
    /\ lastCall = NoCall
    /\ sess = [s \in Sessions |-> IdleSession]
    /\ notifications = <<>>
    /\ tasks = <<>>

ConcBegin ==
    \E s \in Sessions, idx \in Employees, month \in {2, 3} : conc_begin(s, idx, 2025, month)

ConcLookup == \E s \in Sessions : conc_lookup(s)

ConcCommit == \E s \in Sessions : conc_commit(s)

NextConc ==
    \/ ConcBegin
    \/ ConcLookup
    \/ ConcCommit

SpecConc == InitConc /\ [][NextConc]_vars

\* ------------------------- SpecLeave: the leave workflow and the calculation
InitLeave ==
    /\ employee1 = TwoEmployees(Some(3000000), NULL)
    /\ attendance1 = WithIds(present_rows(1, D(2, 17), D(2, 28)))
    /\ leaves = <<>>
    /\ salary = <<>>
    /\ lastCall = NoCall
    /\ sess = [s \in Sessions |-> IdleSession]
    /\ notifications = <<>>
    /\ tasks = <<>>

\* requests for eleven working days of February 2025, for its first week, and
\* with the dates in the wrong order
LeaveRequests == {<<D(2, 3), D(2, 17)>>, <<D(2, 3), D(2, 7)>>, <<D(2, 7), D(2, 3)>>}

LeaveCreate ==
    \E user_id \in Employees, r \in LeaveRequests :
        /\ Len(leaves) < MaxLeaveRows
        /\ create_leave(user_id, "Unpaid", r[1], r[2])

LeaveApprove == \E id \in DOMAIN leaves : approve_leave(id)

LeaveReject == \E id \in DOMAIN leaves : reject_leave(id)

LeaveCancel == \E id \in DOMAIN leaves : cancel_leave(id)

LeaveCalculate == calculate_for_employee(1, 2025, 2, FALSE)

NextLeave ==
    \/ LeaveCreate
    \/ LeaveApprove
    \/ LeaveReject
    \/ LeaveCancel
    \/ LeaveCalculate

SpecLeave == InitLeave /\ [][NextLeave]_vars

\* -------------------- SpecNotif: the notifications file in concurrent requests
\* the current users of the requests: the admin and the employees
NotifUsers ==
    {[id |-> 0, role |-> "admin"]} \cup {[id |-> e, role |-> "employee"] : e \in Employees}

\* max((i.get("id", 0) for i in items), default=0) + 1
next_id(items) ==
    LET ids == {items[i].id : i \in DOMAIN items}
    IN  (IF ids = {} THEN 0 ELSE CHOOSE m \in ids : \A n \in ids : n <= m) + 1

\* the records appended so far and the ones a request is about to append
NotifyLoad ==
    Len(lastCall.results)
        + Cardinality({s \in Sessions : sess[s].pc = "loaded" /\ sess[s].op = "notify"})

\* notify_endpoint up to items = _load_notifs(): 404 and 403 leave the file alone
notify_load(s, user, leave_id) ==
    /\ sess[s].pc = "idle"
    /\ IF leave_id \notin DOMAIN leaves
       THEN /\ lastCall' = [lastCall EXCEPT !.op = "notify", !.ret = Some("404")]
            /\ UNCHANGED sess
       ELSE IF user.role # "admin" /\ user.id # leaves[leave_id].employee_id
       THEN /\ lastCall' = [lastCall EXCEPT !.op = "notify", !.ret = Some("403")]
            /\ UNCHANGED sess
       ELSE /\ sess' = [sess EXCEPT ![s] =
                    [IdleSession EXCEPT !.pc = "loaded", !.op = "notify",
                                        !.employee_id = user.id,
                                        !.locals = Some([items |-> notifications,
                                                         leave_id |-> leave_id,
                                                         role |-> user.role])]]
            /\ lastCall' = [lastCall EXCEPT !.op = "notify", !.ret = NULL]
    /\ UNCHANGED <<employee1, attendance1, leaves, salary, notifications, tasks>>

\* notify_endpoint from next_id to _save_notifs(items)
notify_save(s) ==
    /\ sess[s].pc = "loaded"
    /\ sess[s].op = "notify"
    /\ LET loc    == sess[s].locals[1]
           record == [id |-> next_id(loc.items), leave_id |-> loc.leave_id,
                      sender_id |-> sess[s].employee_id, sender_role |-> loc.role,
                      is_read |-> (loc.role = "admin")]
       IN  /\ notifications' = Append(loc.items, record)
           /\ lastCall' = [lastCall EXCEPT !.op = "notify", !.ret = Some("ok"),
                                           !.results = Append(@, record)]
    /\ sess' = [sess EXCEPT ![s] = IdleSession]
    /\ UNCHANGED <<employee1, attendance1, leaves, salary, tasks>>

\* mark_notification_read up to items = _load_notifs()
mark_load(s, user) ==
    /\ sess[s].pc = "idle"
    /\ IF user.role # "admin"
       THEN /\ lastCall' = [lastCall EXCEPT !.op = "mark", !.ret = Some("403")]
            /\ UNCHANGED sess
       ELSE /\ sess' = [sess EXCEPT ![s] =
                    [IdleSession EXCEPT !.pc = "loaded", !.op = "mark",
                                        !.locals = Some([items |-> notifications])]]
            /\ lastCall' = [lastCall EXCEPT !.op = "mark", !.ret = NULL]
    /\ UNCHANGED <<employee1, attendance1, leaves, salary, notifications, tasks>>

\* the loop of mark_notification_read: the first record with the id is marked
mark_first(items, notif_id) ==
    LET hits == {i \in DOMAIN items : items[i].id = notif_id}
        k    == IF hits = {} THEN 0 ELSE CHOOSE i \in hits : \A j \in hits : i <= j
    IN  [i \in DOMAIN items |-> IF i = k THEN [items[i] EXCEPT !.is_read = TRUE]
                                ELSE items[i]]

\* mark_notification_read from the loop to _save_notifs(items)
mark_save(s, notif_id) ==
    /\ sess[s].pc = "loaded"
    /\ sess[s].op = "mark"
    /\ LET items == sess[s].locals[1].items
       IN  IF \E i \in DOMAIN items : items[i].id = notif_id
           THEN /\ notifications' = mark_first(items, notif_id)
                /\ lastCall' = [lastCall EXCEPT !.op = "mark", !.ret = Some("ok")]
           ELSE /\ lastCall' = [lastCall EXCEPT !.op = "mark", !.ret = Some("404")]
                /\ UNCHANGED notifications
    /\ sess' = [sess EXCEPT ![s] = IdleSession]
    /\ UNCHANGED <<employee1, attendance1, leaves, salary, tasks>>

InitNotif ==
    /\ employee1 = TwoEmployees(Some(3000000), NULL)
    /\ attendance1 = <<>>
    /\ leaves = <<[id |-> 1, employee_id |-> 1, leave_type |-> "Casual",
                   from_date |-> D(2, 3), to_date |-> D(2, 7), status |-> "Pending"]>>
    /\ salary = <<>>
    /\ lastCall = NoCall
    /\ sess = [s \in Sessions |-> IdleSession]
    /\ notifications = <<>>
    /\ tasks = <<>>

NotifyBegin ==
    \E s \in Sessions, user \in NotifUsers, leave_id \in 1..2 :
        /\ NotifyLoad < MaxNotifs
        /\ notify_load(s, user, leave_id)

NotifyFinish == \E s \in Sessions : notify_save(s)

MarkBegin == \E s \in Sessions, user \in NotifUsers : mark_load(s, user)

MarkFinish == \E s \in Sessions, notif_id \in 1..MaxNotifs : mark_save(s, notif_id)

NextNotif ==
    \/ NotifyBegin
    \/ NotifyFinish
    \/ MarkBegin
    \/ MarkFinish

SpecNotif == InitNotif /\ [][NextNotif]_vars

\* ------------------------------------------------------ SpecTask: task_action
\* db.query(Task).filter(Task.id == task_id).first(): the position of the row, or 0
task_index(ts, task_id) ==
    LET hits == {i \in DOMAIN ts : ts[i].id = task_id}
    IN  IF hits = {} THEN 0 ELSE CHOOSE i \in hits : \A j \in hits : i <= j

\* int(assigned_to_raw), None when the field is absent, empty, "None" or no number
parsed_assignee(assigned_to_raw) ==
    IF assigned_to_raw = NULL \/ assigned_to_raw[1] \in {"", "None"} THEN NULL
    ELSE LET ns == {n \in 0..9 : IntStr(n) = assigned_to_raw[1]}
         IN  IF ns = {} THEN NULL ELSE Some(CHOOSE n \in ns : TRUE)

\* the employee branch of task_action on one row
employee_action(task, action, user_id) ==
    IF action = "accept"
    THEN [task EXCEPT !.assigned_to = IF @ = NULL THEN Some(user_id) ELSE @,
                      !.status = Some("In Progress")]
    ELSE IF action = "complete" /\ task.assigned_to = Some(user_id)
    THEN [task EXCEPT !.status = Some("Completed")]
    ELSE IF action = "reopen" /\ task.assigned_to = Some(user_id)
    THEN [task EXCEPT !.status = Some("In Progress")]
    ELSE task

\* the update of the admin branch on one row
admin_update(task, title, assigned_to_raw) ==
    [task EXCEPT !.title = IF title # NULL /\ title # Some("") THEN title[1] ELSE @,
                 !.assigned_to =
                    IF parsed_assignee(assigned_to_raw) # NULL
                    THEN parsed_assignee(assigned_to_raw)
                    ELSE IF assigned_to_raw \in {Some(""), Some("None")}
                    THEN NULL ELSE @]

task_action(task_id, action, role, user_id, title, assigned_to_raw) ==
    LET i == task_index(tasks, task_id)
    IN  /\ tasks' =
              IF i = 0 THEN tasks
              ELSE IF role = "employee"
              THEN [tasks EXCEPT ![i] = employee_action(@, action, user_id)]
              ELSE IF role = "admin" /\ action = "delete"
              THEN SelectSeq(tasks, LAMBDA t : t.id # task_id)
              ELSE IF role = "admin" /\ action = "update"
              THEN [tasks EXCEPT ![i] = admin_update(@, title, assigned_to_raw)]
              ELSE tasks
        /\ lastCall' = [NoCall EXCEPT !.op = "task_action",
                                      !.args = <<role, user_id, action, task_id>>,
                                      !.before = tasks]
        /\ UNCHANGED <<employee1, attendance1, leaves, salary, sess, notifications>>

TaskRow(id, assigned_to, status) ==
    [id |-> id, title |-> "report", assigned_to |-> assigned_to, status |-> status]

InitTask ==
    /\ employee1 = TwoEmployees(Some(3000000), NULL)
    /\ attendance1 = <<>>
    /\ leaves = <<>>
    /\ salary = <<>>
    /\ lastCall = NoCall
    /\ sess = [s \in Sessions |-> IdleSession]
    /\ notifications = <<>>
    /\ tasks = <<TaskRow(1, NULL, Some("To-Do")), TaskRow(2, Some(2), Some("To-Do"))>>

TaskActions == {"accept", "complete", "reopen", "delete", "update"}

\* the form fields that come with an update
UpdateFields == {<<NULL, Some("")>>, <<NULL, Some("2")>>, <<Some("audit"), NULL>>}

\* a request of an employee, with the fields of the update form when it says update
TaskEmployee ==
    \E task_id \in 1..3, action \in TaskActions, user_id \in Employees :
        IF action = "update"
        THEN task_action(task_id, action, "employee", user_id, Some("audit"), Some("2"))
        ELSE task_action(task_id, action, "employee", user_id, NULL, NULL)

\* a request of the admin (user 0): delete, update, or an action the branch ignores
TaskAdmin ==
    \E task_id \in 1..3 :
        \/ \E action \in {"delete", "accept"} :
              task_action(task_id, action, "admin", 0, NULL, NULL)
        \/ \E f \in UpdateFields : task_action(task_id, "update", "admin", 0, f[1], f[2])

\* a request whose user has no role
TaskNoRole == \E task_id \in 1..3 : task_action(task_id, "accept", "", 0, NULL, NULL)

NextTask ==
    \/ TaskEmployee
    \/ TaskAdmin
    \/ TaskNoRole

SpecTask == InitTask /\ [][NextTask]_vars

\* ------------------ SpecAtt: check_in and check_out in concurrent requests
\* db.query(Attendance).filter(employee_id == user_id, date == today).first():
\* the id of the first matching row, 0 when there is none
today_row(att, user_id, today) ==
    LET hits == {i \in DOMAIN att : att[i].employee_id = user_id /\ att[i].date = today}
    IN  IF hits = {} THEN 0 ELSE CHOOSE i \in hits : \A j \in hits : i <= j

\* attendance/router.py lines 458-460 and 546-548: the request of user_id on the
\* day today reads the row of today into its session
att_lookup(s, op, user_id, today) ==
    LET ex == today_row(attendance1, user_id, today)
    IN  /\ sess[s].pc = "idle"
        /\ sess' = [sess EXCEPT ![s] =
                        [IdleSession EXCEPT !.pc = "att_found",
                                            !.op = op,
                                            !.employee_id = user_id,
                                            !.today = today,
                                            !.existing = ex,
                                            !.seen = IF ex = 0 THEN NULL
                                                     ELSE Some(attendance1[ex])]]
        /\ UNCHANGED <<employee1, attendance1, leaves, salary, lastCall, notifications, tasks>>

\* a check_in that stores the new time also when the row has one
check_in_finish_overwriting(s, now) ==
    LET q    == sess[s]
        call == [NoCall EXCEPT !.op = "check_in", !.employee_id = q.employee_id,
                               !.args = <<q.today, now>>, !.prev_row = q.seen]
    IN  /\ q.pc = "att_found"
        /\ q.op = "check_in"
        /\ IF q.seen = NULL
           THEN /\ attendance1' = Append(attendance1,
                                         [id          |-> Len(attendance1) + 1,
                                          employee_id |-> q.employee_id,
                                          date        |-> q.today,
                                          check_in    |-> Some(now),
                                          check_out   |-> NULL,
                                          status      |-> "PRESENT"])
                /\ lastCall' = [call EXCEPT !.ret = Some("ok")]
           ELSE /\ attendance1' = [attendance1 EXCEPT ![q.existing].check_in = Some(now)]
                /\ lastCall' = [call EXCEPT !.ret = Some("ok")]
        /\ sess' = [sess EXCEPT ![s] = IdleSession]
        /\ UNCHANGED <<employee1, leaves, salary, notifications, tasks>>

\* check_in lines 463-500, on what the lookup read: insert the row, set check_in
\* of a row without one, or answer "Already checked-in"
check_in_finish(s, now) ==
    LET q    == sess[s]
        call == [NoCall EXCEPT !.op = "check_in", !.employee_id = q.employee_id,
                               !.args = <<q.today, now>>, !.prev_row = q.seen]
    IN  /\ q.pc = "att_found"
        /\ q.op = "check_in"
        /\ IF q.seen = NULL
           THEN /\ attendance1' = Append(attendance1,
                                         [id          |-> Len(attendance1) + 1,
                                          employee_id |-> q.employee_id,
                                          date        |-> q.today,
                                          check_in    |-> Some(now),
                                          check_out   |-> NULL,
                                          status      |-> "PRESENT"])
                /\ lastCall' = [call EXCEPT !.ret = Some("ok")]
           ELSE IF q.seen[1].check_in = NULL
           THEN /\ attendance1' = [attendance1 EXCEPT ![q.existing].check_in = Some(now)]
                /\ lastCall' = [call EXCEPT !.ret = Some("ok")]
           ELSE /\ attendance1' = attendance1
                /\ lastCall' = [call EXCEPT !.ret = Some("already")]
        /\ sess' = [sess EXCEPT ![s] = IdleSession]
        /\ UNCHANGED <<employee1, leaves, salary, notifications, tasks>>

\* check_out lines 550-589, on what the lookup read: 404 without a row, 400
\* without check_in, "Already checked out", or set check_out
check_out_finish(s, now) ==
    LET q    == sess[s]
        call == [NoCall EXCEPT !.op = "check_out", !.employee_id = q.employee_id,
                               !.args = <<q.today, now>>, !.prev_row = q.seen]
    IN  /\ q.pc = "att_found"
        /\ q.op = "check_out"
        /\ IF q.seen = NULL
           THEN /\ attendance1' = attendance1
                /\ lastCall' = [call EXCEPT !.ret = Some("404"), !.raised = TRUE]
           ELSE IF q.seen[1].check_in = NULL
           THEN /\ attendance1' = attendance1
                /\ lastCall' = [call EXCEPT !.ret = Some("400"), !.raised = TRUE]
           ELSE IF q.seen[1].check_out # NULL
           THEN /\ attendance1' = attendance1
                /\ lastCall' = [call EXCEPT !.ret = Some("already")]
           ELSE /\ attendance1' = [attendance1 EXCEPT ![q.existing].check_out = Some(now)]
                /\ lastCall' = [call EXCEPT !.ret = Some("ok")]
        /\ sess' = [sess EXCEPT ![s] = IdleSession]
        /\ UNCHANGED <<employee1, leaves, salary, notifications, tasks>>

\* the time datetime.now() gives, later than the times stored before
Times == {10}

\* the day date.today() gives
Todays == {D(2, 4)}

\* a row of the first employee
AttRow(date, check_in, check_out, status) ==
    [id |-> 1, employee_id |-> 1, date |-> date,
     check_in |-> check_in, check_out |-> check_out, status |-> status]

\* no row, or one row of the first employee: of yesterday, or of today without
\* check_in, with check_in, or with check_in and check_out
InitAtt ==
    /\ employee1 = TwoEmployees(Some(3000000), NULL)
    /\ attendance1 \in {<<>>,
                         <<AttRow(D(2, 3), Some(8), Some(9), "PRESENT")>>,
                         <<AttRow(D(2, 4), NULL, NULL, "WFH")>>,
                         <<AttRow(D(2, 4), Some(8), NULL, "PRESENT")>>,
                         <<AttRow(D(2, 4), Some(8), Some(9), "PRESENT")>>}
    /\ leaves = <<>>
    /\ salary = <<>>
    /\ lastCall = NoCall
    /\ sess = [s \in Sessions |-> IdleSession]
    /\ notifications = <<>>
    /\ tasks = <<>>

\* the rows that exist and the inserts that may follow
AttendanceLoad ==
    Len(attendance1)
    + Cardinality({s \in Sessions : sess[s].pc = "att_found" /\ sess[s].op = "check_in"
                                      /\ sess[s].seen = NULL})

\* a request is started while fewer than MaxAttendance rows were or may be
\* inserted
AttLookup ==
    \E s \in Sessions, op \in {"check_in", "check_out"},
       user_id \in Employees, today \in Todays :
        /\ AttendanceLoad < MaxAttendance
        /\ att_lookup(s, op, user_id, today)

CheckInFinish == \E s \in Sessions, now \in Times : check_in_finish(s, now)

CheckOutFinish == \E s \in Sessions, now \in Times : check_out_finish(s, now)

NextAtt ==
    \/ AttLookup
    \/ CheckInFinish
    \/ CheckOutFinish

SpecAtt == InitAtt /\ [][NextAtt]_vars

\* ------------- SpecStub: the calculation with the working-day counter stubbed
InitStub ==
    /\ employee1 \in {TwoEmployees(s1, NULL) : s1 \in SalaryValues}
    /\ attendance1 \in {WithIds(rows \o mixed_rows(2)) :
                            rows \in {<<>>, present_rows(1, D(2, 10), D(2, 28))}}
    /\ leaves \in LeaveTables
    /\ salary = <<>>
    /\ lastCall = NoCall
    /\ sess = [s \in Sessions |-> IdleSession]
    /\ notifications = <<>>
    /\ tasks = <<>>

\* a stub returning 0, and one returning the 20 working days of February 2025
StubCalculate ==
    \E stub \in {0, 20} : calculate_with_working_days(1, 2025, 2, stub)

NextStub == StubCalculate

SpecStub == InitStub /\ [][NextStub]_vars

\* ------------------------------ SpecDays: count_working_days over date pairs
\* from Monday 27 January 2025 on
DayRange == D(1, 27)..(D(1, 27) + MaxSpan)

InitDays ==
    /\ employee1 = <<>>
    /\ attendance1 = <<>>
    /\ leaves = <<>>
    /\ salary = <<>>
    /\ lastCall = NoCall
    /\ sess = [s \in Sessions |-> IdleSession]
    /\ notifications = <<>>
    /\ tasks = <<>>

CountWorkingDays ==
    \E start \in DayRange, end \in DayRange : call_count_working_days(start, end)

NextDays == CountWorkingDays

SpecDays == InitDays /\ [][NextDays]_vars

\* ----------------------------- SpecMonth: the calls over the months of 2025
\* a row of the first employee stored for March 2025 by an earlier run
StoredRow ==
    [id |-> 1, employee_id |-> 1, month |-> "2025-03", base_salary |-> 100,
     deductions |-> 0, net_salary |-> 100, slip_file |-> Some("old.pdf")]

\* months with one and with two digits
KeyMonths == {1, 3, 9, 10, 12}

\* months date(year, month, 1) does not accept
InvalidMonths == {0, 13}

\* the employee1 table is empty, or holds the employees, with attendance rows
\* and a leave in March, with or without the stored row
InitMonth ==
    /\ employee1 \in {<<>>, TwoEmployees(Some(3000000), NULL)}
    /\ attendance1 = IF employee1 = <<>> THEN <<>>
                     ELSE WithIds(present_rows(1, D(3, 3), D(3, 14)) \o mixed_rows(2))
    /\ leaves = IF employee1 = <<>> THEN <<>>
                ELSE <<LeaveRow(1, 2, "Casual", <<D(3, 17), D(3, 18)>>, "Approved")>>
    /\ salary \in IF employee1 = <<>> THEN {<<>>} ELSE {<<>>, <<StoredRow>>}
    /\ lastCall = NoCall
    /\ sess = [s \in Sessions |-> IdleSession]
    /\ notifications = <<>>
    /\ tasks = <<>>

\* the first employee in every month, the others in March; a call inserts
\* while the table has fewer than MaxRows rows
MonthCalculate ==
    \E idx \in DOMAIN employee1, month \in KeyMonths \cup InvalidMonths :
        /\ idx = 1 \/ month = 3
        /\ \/ ~ValidMonth(month)
           \/ Len(salary) < MaxRows
           \/ existing_id(salary, employee1[idx].id, month_str(2025, month)) # 0
        /\ calculate_for_employee(idx, 2025, month, FALSE)

MonthRun ==
    \E month \in {3} \cup InvalidMonths :
        run_engine_for_month(2025, month, RunConfig(FALSE, FALSE, "tuple", 0, FALSE, 0, 0))

NextMonth ==
    \/ MonthCalculate
    \/ MonthRun

SpecMonth == InitMonth /\ [][NextMonth]_vars

\* ------------------------------------------------------------------ claims
\* the ids of the Salary rows of one (employee_id, month) key
RowsOfKey(employee_id, mstr) ==
    {i \in DOMAIN salary : salary[i].employee_id = employee_id /\ salary[i].month = mstr}

SameFigures(r, fig) ==
    /\ r.base_salary = fig.base_salary
    /\ r.deductions = fig.deduction
    /\ r.net_salary = fig.net_salary

\* C1: after any sequence of calculate_for_employee and run_engine_for_month
\* calls, with changes of the employee, attendance and leave data in between,
\* no two Salary rows have the same (employee_id, month)
C1_OneRowPerKey ==
    \A i, j \in DOMAIN salary :
        (salary[i].employee_id = salary[j].employee_id /\ salary[i].month = salary[j].month)
            => i = j

\* a call that found the row of its key, in a table with several keys
C1_Witness ==
    /\ lastCall.op = "calc"
    /\ lastCall.prev_row # NULL
    /\ Len(salary) >= 2

\* C2: a second calculate_for_employee call for the same employee and month,
\* with nothing changed since the first, leaves the same base_salary, deductions
\* and net_salary in the row, and one row for the key
C2_Idempotent ==
    (lastCall.op = "calc" /\ lastCall.repeat) =>
        /\ lastCall.prev_row # NULL
        /\ lastCall.row[1].base_salary = lastCall.prev_row[1].base_salary
        /\ lastCall.row[1].deductions = lastCall.prev_row[1].deductions
        /\ lastCall.row[1].net_salary = lastCall.prev_row[1].net_salary
        /\ Cardinality(RowsOfKey(lastCall.employee_id,
                                 month_str(lastCall.year, lastCall.month))) = 1

\* a repeated call whose figures are not all zero
C2_Witness ==
    /\ lastCall.op = "calc"
    /\ lastCall.repeat
    /\ lastCall.row[1].deductions > 0
    /\ lastCall.row[1].net_salary > 0

\* C3: when every concurrent calculate_for_employee call has returned, each
\* call's key has exactly one Salary row, with the figures that call computed
C3_ConcurrentRunsSafe ==
    (\A s \in Sessions : sess[s].pc = "done") =>
        \A s \in Sessions :
            LET hits == RowsOfKey(sess[s].employee_id,
                                  month_str(sess[s].year, sess[s].month))
            IN  /\ Cardinality(hits) = 1
                /\ \A i \in hits : SameFigures(salary[i], sess[s].locals[1])

\* C4: in every calculation paid_days <= total_working_days
C4_PaidDaysCapped ==
    lastCall.locals # NULL =>
        lastCall.locals[1].paid_days <= lastCall.locals[1].total_working_days

\* a calculation where the present days plus the paid leave days exceed the
\* working days of the month
C4_Witness ==
    /\ lastCall.locals # NULL
    /\ lastCall.locals[1].att_count
         + (lastCall.locals[1].leave_days - lastCall.locals[1].unpaid_leave_days)
         > lastCall.locals[1].total_working_days
    /\ lastCall.locals[1].paid_days = lastCall.locals[1].total_working_days

\* C5: every Salary row written by calculate_for_employee has net_salary >= 0
C5_NetNonNegative ==
    \A i \in DOMAIN salary : salary[i].net_salary >= 0

\* a calculation whose deduction exceeds the earned amount
C5_Witness ==
    /\ lastCall.locals # NULL
    /\ lastCall.locals[1].deduction > lastCall.locals[1].earned
    /\ lastCall.row[1].net_salary = 0

\* the inputs of scenario B: base salary 30000.00, PRESENT on 15 working days of
\* February 2025, one Approved leave of type "Unpaid" from Monday 3 to Friday 7
ScenarioB ==
    /\ lastCall.op = "calc"
    /\ lastCall.employee_id = 1
    /\ lastCall.year = 2025
    /\ lastCall.month = 2
    /\ employee1[1].salary = Some(3000000)
    /\ attendance1 = WithIds(present_rows(1, D(2, 10), D(2, 28)) \o mixed_rows(2))
    /\ leaves = <<LeaveRow(1, 1, "Unpaid", <<D(2, 3), D(2, 7)>>, "Approved")>>

\* C6: in scenario B the month has 20 working days, unpaid_leave_days = 5,
\* leave_days = 5, paid_days = 15, deductions = 7500.00, earned = 22500.00 and
\* net_salary = 15000.00
C6_ScenarioB ==
    ScenarioB =>
        /\ lastCall.locals[1].total_working_days = 20
        /\ lastCall.locals[1].att_count = 15
        /\ lastCall.locals[1].unpaid_leave_days = 5
        /\ lastCall.locals[1].leave_days = 5
        /\ lastCall.locals[1].paid_days = 15
        /\ lastCall.locals[1].deduction = 750000
        /\ lastCall.locals[1].earned = 2250000
        /\ lastCall.locals[1].net_salary = 1500000
        /\ lastCall.row[1].deductions = 750000
        /\ lastCall.row[1].net_salary = 1500000

C6_Witness ==
    /\ ScenarioB
    /\ lastCall.row # NULL
    /\ lastCall.row[1].base_salary = 3000000

\* C7: a run in which no calculation fails returns one Salary row per employee,
\* in the order of the employees, and each employee then has that row, and no
\* other, for the month
C7_EveryEmployeeOnce ==
    (lastCall.op = "run" /\ ~lastCall.raised) =>
        /\ Len(lastCall.results) = Len(employee1)
        /\ \A i \in DOMAIN employee1 :
            /\ lastCall.results[i].employee_id = employee1[i].id
            /\ lastCall.results[i].month = month_str(lastCall.year, lastCall.month)
            /\ RowsOfKey(employee1[i].id, month_str(lastCall.year, lastCall.month))
                 = {lastCall.results[i].id}
            /\ salary[lastCall.results[i].id] = lastCall.results[i]

\* a completed run over employees with and without a salary
C7_Witness ==
    /\ lastCall.op = "run"
    /\ ~lastCall.raised
    /\ Len(lastCall.results) = NumEmployees
    /\ \E i \in DOMAIN employee1 : employee1[i].salary = NULL

SideEffectFailed(cfg) ==
    /\ cfg.generate_pdf
    /\ cfg.pdf_generator
    /\ \/ cfg.pdfRaiseAt # 0
       \/ cfg.shape = "bytes_oserror"
       \/ (cfg.email_sender /\ cfg.emailRaiseAt # 0)

\* C8: a run in which the PDF generator, the file write or the email sender fails
\* for an employee, and the database does not, raises nothing and returns the
\* calculated row of every employee
C8_SideEffectsNonFatal ==
    (/\ lastCall.op = "run"
     /\ ValidMonth(lastCall.month)
     /\ lastCall.cfg[1].dbFailAt = 0
     /\ SideEffectFailed(lastCall.cfg[1])) =>
        /\ ~lastCall.raised
        /\ Len(lastCall.results) = Len(employee1)
        /\ \A i \in DOMAIN employee1 :
            /\ lastCall.results[i].employee_id = employee1[i].id
            /\ SameFigures(lastCall.results[i],
                           Figures(attendance1, leaves, employee1[i],
                                   lastCall.year, lastCall.month))

\* a run whose generator raised for the first employee and that returned a row
\* with a payslip for a later one
C8_Witness ==
    /\ lastCall.op = "run"
    /\ lastCall.cfg[1].pdfRaiseAt = 1
    /\ lastCall.cfg[1].dbFailAt = 0
    /\ Len(lastCall.results) = NumEmployees
    /\ lastCall.results[NumEmployees].slip_file # NULL

\* C9: a run in which the calculation of employee N fails raises, and the rows
\* of the employees before N are in the table as that run committed them
C9_CalcFailurePropagates ==
    (lastCall.op = "run" /\ lastCall.cfg[1].dbFailAt # 0) =>
        /\ lastCall.raised
        /\ lastCall.failedAt = lastCall.cfg[1].dbFailAt
        /\ Len(lastCall.results) = lastCall.failedAt - 1
        /\ \A i \in 1..(lastCall.failedAt - 1) :
            /\ lastCall.results[i].employee_id = employee1[i].id
            /\ lastCall.results[i].id \in DOMAIN salary
            /\ salary[lastCall.results[i].id] = lastCall.results[i]
            /\ SameFigures(lastCall.results[i],
                           Figures(attendance1, leaves, employee1[i],
                                   lastCall.year, lastCall.month))

\* a run that failed at the last employee after committing a row with a payslip
C9_Witness ==
    /\ lastCall.op = "run"
    /\ lastCall.raised
    /\ lastCall.failedAt = NumEmployees
    /\ Len(lastCall.results) = NumEmployees - 1
    /\ lastCall.results[1].slip_file # NULL

\* C10: a calculate_for_employee call that finds the row of its key changes
\* base_salary, deductions and net_salary of that row and nothing else in the
\* table; a call that finds none appends one row, with slip_file NULL
C10_RecomputeKeepsSlip ==
    [][(lastCall'.op = "calc" /\ ~lastCall'.raised) =>
        LET mstr == month_str(lastCall'.year, lastCall'.month)
            hits == RowsOfKey(lastCall'.employee_id, mstr)
        IN  IF hits # {}
            THEN /\ Len(salary') = Len(salary)
                 /\ \E ex \in hits :
                      /\ salary' = [salary EXCEPT
                                      ![ex].base_salary = lastCall'.locals[1].base_salary,
                                      ![ex].deductions = lastCall'.locals[1].deduction,
                                      ![ex].net_salary = lastCall'.locals[1].net_salary]
                      /\ salary'[ex].slip_file = salary[ex].slip_file
            ELSE /\ Len(salary') = Len(salary) + 1
                 /\ SubSeq(salary', 1, Len(salary)) = salary
                 /\ salary'[Len(salary')].employee_id = lastCall'.employee_id
                 /\ salary'[Len(salary')].month = mstr
                 /\ salary'[Len(salary')].slip_file = NULL
                 /\ SameFigures(salary'[Len(salary')], lastCall'.locals[1])
      ]_vars

\* a call that found a row with a payslip and changed its base_salary
C10_Witness ==
    /\ lastCall.op = "calc"
    /\ lastCall.prev_row # NULL
    /\ lastCall.prev_row[1].slip_file # NULL
    /\ lastCall.row[1].slip_file = lastCall.prev_row[1].slip_file
    /\ lastCall.row[1].base_salary # lastCall.prev_row[1].base_salary

\* the month keys of 2025 as the stored records spell them
Keys2025 ==
    <<"2025-01", "2025-02", "2025-03", "2025-04", "2025-05", "2025-06",
      "2025-07", "2025-08", "2025-09", "2025-10", "2025-11", "2025-12">>

\* C11: the row a calculate_for_employee call for a month 1..12 of 2025 writes
\* has the month "2025-" followed by the two-digit month, it is the only row
\* of the employee with that key, and no row has a key of another spelling
C11_MonthKeyFormat ==
    /\ \A i \in DOMAIN salary : \E m \in 1..12 : salary[i].month = Keys2025[m]
    /\ (lastCall.op = "calc" /\ ~lastCall.raised /\ lastCall.year = 2025) =>
            /\ lastCall.row[1].month = Keys2025[lastCall.month]
            /\ RowsOfKey(lastCall.employee_id, Keys2025[lastCall.month])
                 = {lastCall.row[1].id}

\* a call for month 3 that found the row stored as "2025-03", in a table that
\* also has a row of a two-digit month
C11_Witness ==
    /\ lastCall.op = "calc"
    /\ lastCall.month = 3
    /\ lastCall.prev_row # NULL
    /\ lastCall.prev_row[1].slip_file = Some("old.pdf")
    /\ lastCall.row[1].base_salary = 3000000
    /\ \E i \in DOMAIN salary : salary[i].month = "2025-10"

\* C12: a calculate_for_employee or run_engine_for_month call with a month
\* outside 1..12 raises, and the Salary table is after the call as before it
C12_InvalidMonthRejected ==
    [][(lastCall'.op \in {"calc", "run"} /\ ~ValidMonth(lastCall'.month)) =>
        /\ lastCall'.raised
        /\ salary' = salary
      ]_vars

\* C13: a calculate_for_employee call for an employee whose salary is NULL
\* raises nothing and stores base_salary = 0, deductions = 0 and net_salary = 0
C13_NullSalaryZeroPay ==
    (/\ lastCall.op = "calc"
     /\ employee1[lastCall.employee_id].salary = NULL) =>
        /\ ~lastCall.raised
        /\ lastCall.row # NULL
        /\ lastCall.locals[1].base_salary = 0
        /\ lastCall.row[1].base_salary = 0
        /\ lastCall.row[1].deductions = 0
        /\ lastCall.row[1].net_salary = 0
        /\ salary[lastCall.row[1].id] = lastCall.row[1]

\* such a call for an employee with present days and unpaid leave days
C13_Witness ==
    /\ lastCall.op = "calc"
    /\ employee1[lastCall.employee_id].salary = NULL
    /\ lastCall.locals # NULL
    /\ lastCall.locals[1].att_count > 0
    /\ lastCall.locals[1].unpaid_leave_days > 0
    /\ lastCall.row[1].net_salary = 0

\* C14: a calculate_for_employee or run_engine_for_month call leaves the
\* employee1, attendance1 and leaves tables as they were
C14_EngineReadOnly ==
    [][lastCall'.op \in {"calc", "run"} =>
        /\ employee1' = employee1
        /\ attendance1' = attendance1
        /\ leaves' = leaves
      ]_vars

\* a call that wrote a Salary row for an employee without a salary, with rows
\* in the three tables it reads
C14_Witness ==
    /\ lastCall.op = "calc"
    /\ lastCall.row # NULL
    /\ employee1[lastCall.employee_id].salary = NULL
    /\ leaves # <<>>
    /\ \E i \in DOMAIN attendance1 : attendance1[i].employee_id = lastCall.employee_id
    /\ lastCall.row[1] \in {salary[i] : i \in DOMAIN salary}

\* the inputs of scenario C: base salary 30000.00, PRESENT on 12 working days of
\* February 2025, one Approved leave of type "Casual" over 8 working days
ScenarioC ==
    /\ lastCall.op = "calc"
    /\ lastCall.employee_id = 1
    /\ lastCall.year = 2025
    /\ lastCall.month = 2
    /\ employee1[1].salary = Some(3000000)
    /\ attendance1 = WithIds(present_rows(1, D(2, 13), D(2, 28)) \o mixed_rows(2))
    /\ leaves = <<LeaveRow(1, 1, "Casual", <<D(2, 3), D(2, 12)>>, "Approved")>>

\* C15: in every calculation paid_days is the present days plus the leave days
\* that are not unpaid, or the working days of the month when that sum is
\* larger; in scenario C paid_days = 20, deductions = 0 and net_salary = 30000.00
C15_PaidDaysRule ==
    /\ lastCall.locals # NULL =>
            LET f       == lastCall.locals[1]
                credit  == IF f.leave_days > f.unpaid_leave_days
                           THEN f.leave_days - f.unpaid_leave_days ELSE 0
            IN  f.paid_days = IF f.att_count + credit <= f.total_working_days
                              THEN f.att_count + credit
                              ELSE f.total_working_days
    /\ ScenarioC =>
            /\ lastCall.locals[1].total_working_days = 20
            /\ lastCall.locals[1].att_count = 12
            /\ lastCall.locals[1].leave_days = 8
            /\ lastCall.locals[1].unpaid_leave_days = 0
            /\ lastCall.locals[1].paid_days = 20
            /\ lastCall.locals[1].earned = 3000000
            /\ lastCall.row[1].deductions = 0
            /\ lastCall.row[1].net_salary = 3000000

C15_Witness ==
    /\ ScenarioC
    /\ lastCall.row # NULL
    /\ lastCall.locals[1].att_count < lastCall.locals[1].paid_days
    /\ lastCall.row[1].net_salary = lastCall.row[1].base_salary

\* r cents is num/den cents rounded to the nearest cent, an exact half cent
\* going to the cent of larger magnitude
IsRoundedHalfUp(r, num, den) ==
    LET a == IF num < 0 THEN 0 - num ELSE num
        m == IF num < 0 THEN 0 - r ELSE r
    IN  /\ m >= 0
        /\ 2 * den * m - den <= 2 * a
        /\ 2 * a < 2 * den * m + den

\* C16: in a calculation with total_working_days > 0, deduction is
\* base * unpaid_leave_days / total_working_days and earned is
\* base * paid_days / total_working_days, each rounded half-up to the cent, and
\* the row stores base, deduction and the clamped earned - deduction in cents
C16_RoundHalfUp ==
    (lastCall.locals # NULL /\ lastCall.locals[1].total_working_days > 0) =>
        LET f == lastCall.locals[1]
        IN  /\ IsRoundedHalfUp(f.deduction, f.base_salary * f.unpaid_leave_days,
                               f.total_working_days)
            /\ IsRoundedHalfUp(f.earned, f.base_salary * f.paid_days,
                               f.total_working_days)
            /\ lastCall.row[1].base_salary = f.base_salary
            /\ lastCall.row[1].deductions = f.deduction
            /\ lastCall.row[1].net_salary =
                    IF f.earned < f.deduction THEN 0 ELSE f.earned - f.deduction

\* a deduction of exactly n cents and a half, stored as n + 1 cents
C16_Witness ==
    /\ lastCall.locals # NULL
    /\ lastCall.locals[1].base_salary > 0
    /\ lastCall.locals[1].unpaid_leave_days > 0
    /\ 2 * lastCall.locals[1].base_salary * lastCall.locals[1].unpaid_leave_days
         = lastCall.locals[1].total_working_days * (2 * lastCall.locals[1].deduction - 1)
    /\ lastCall.row[1].deductions = lastCall.locals[1].deduction

\* C17 as stated: a calculation whose working-day count is 0 has deduction = 0
\* and earned = base_salary, and stores net_salary = base_salary
C17_ZeroWorkingDaysNetIsBase ==
    (lastCall.locals # NULL /\ lastCall.locals[1].total_working_days = 0) =>
        /\ lastCall.locals[1].deduction = 0
        /\ lastCall.locals[1].earned = lastCall.locals[1].base_salary
        /\ lastCall.row[1].deductions = 0
        /\ lastCall.row[1].net_salary = lastCall.locals[1].base_salary

\* C17 amended: a calculation whose working-day count is 0 has deduction = 0
\* and earned = base_salary, and stores net_salary = base_salary when the base
\* is not negative and 0.00 when it is
C17_ZeroWorkingDays ==
    (lastCall.locals # NULL /\ lastCall.locals[1].total_working_days = 0) =>
        /\ lastCall.locals[1].deduction = 0
        /\ lastCall.locals[1].earned = lastCall.locals[1].base_salary
        /\ lastCall.row[1].deductions = 0
        /\ lastCall.row[1].net_salary =
                IF lastCall.locals[1].base_salary < 0 THEN 0
                ELSE lastCall.locals[1].base_salary

\* a calculation with a count of 0 for an employee with a salary and unpaid
\* leave days
C17_Witness ==
    /\ lastCall.locals # NULL
    /\ lastCall.locals[1].total_working_days = 0
    /\ lastCall.locals[1].unpaid_leave_days > 0
    /\ lastCall.locals[1].base_salary = 3000000
    /\ lastCall.row[1].net_salary = 3000000

\* C18: count_working_days(start, end) is the number of days d with
\* start <= d <= end whose weekday is Monday to Friday, 0 when start > end;
\* Saturday 1 and Sunday 2 February 2025 count 0, the week from 3 to 7 counts 5
C18_CountWorkingDays ==
    lastCall.op = "count_working_days" =>
        LET start == lastCall.args[1]
            end   == lastCall.args[2]
            n     == lastCall.ret[1]
        IN  /\ n = Cardinality({d \in start..end : weekday(d) \in 0..4})
            /\ start > end => n = 0
            /\ (start >= D(2, 1) /\ end <= D(2, 2)) => n = 0
            /\ (start = D(2, 3) /\ end = D(2, 7)) => n = 5
            /\ (start = D(2, 1) /\ end = D(2, 16)) => n = 10

\* a call from a Saturday to the Sunday of the next week
C18_Witness ==
    /\ lastCall.op = "count_working_days"
    /\ lastCall.args = <<D(2, 1), D(2, 9)>>
    /\ lastCall.ret = Some(5)

\* the Monday-to-Friday days of [from_date, to_date] inside [first, last], summed
\* over the Approved leaves of one employee
RECURSIVE ClippedLeaveDays(_, _, _, _)
ClippedLeaveDays(lvs, employee_id, first, last) ==
    IF lvs = <<>> THEN 0
    ELSE LET lv   == Head(lvs)
             from == IF lv.from_date > first THEN lv.from_date ELSE first
             to   == IF lv.to_date < last THEN lv.to_date ELSE last
         IN  (IF lv.employee_id = employee_id /\ lv.status = "Approved"
              THEN Cardinality({d \in from..to : weekday(d) \in 0..4})
              ELSE 0)
             + ClippedLeaveDays(Tail(lvs), employee_id, first, last)

\* C19: leave_days of a calculation is the sum, over the Approved leaves of the
\* employee, of the Monday-to-Friday days in the intersection of the leave's
\* range with the month; days outside the month and weekend days add nothing
C19_LeaveDaysClipped ==
    (lastCall.op = "calc" /\ lastCall.locals # NULL) =>
        lastCall.locals[1].leave_days =
            ClippedLeaveDays(leaves, lastCall.employee_id,
                             MkDate(lastCall.year, lastCall.month, 1),
                             MkDate(lastCall.year, lastCall.month,
                                    DaysInMonth(lastCall.year, lastCall.month)))

\* a March calculation with the Approved leave from Thursday 27 February to
\* Tuesday 4 March, of which Monday 3 and Tuesday 4 count
C19_Witness ==
    /\ lastCall.op = "calc"
    /\ lastCall.month = 3
    /\ lastCall.locals # NULL
    /\ Len(leaves) = 1
    /\ leaves[1].status = "Approved"
    /\ leaves[1].from_date = D(2, 27)
    /\ leaves[1].to_date = D(3, 4)
    /\ lastCall.locals[1].leave_days = 2

\* the employee has no Approved leave
NoApprovedLeave(employee_id) ==
    \A i \in DOMAIN leaves :
        leaves[i].employee_id = employee_id => leaves[i].status # "Approved"

\* C20: a calculation, alone or in a run, for an employee whose leaves are all
\* Pending, Rejected or Cancelled has leave_days = 0 and unpaid_leave_days = 0
\* and stores deductions = 0, also when the row was calculated before with the
\* leave Approved; with the unpaid week of February Approved it has 5 of each
C20_OnlyApprovedCount ==
    /\ (lastCall.op = "calc" /\ lastCall.locals # NULL) =>
            /\ NoApprovedLeave(lastCall.employee_id) =>
                    /\ lastCall.locals[1].leave_days = 0
                    /\ lastCall.locals[1].unpaid_leave_days = 0
                    /\ lastCall.row[1].deductions = 0
                    /\ salary[lastCall.row[1].id].deductions = 0
            /\ (/\ lastCall.month = 2
                /\ \E i \in DOMAIN leaves :
                        /\ leaves[i].employee_id = lastCall.employee_id
                        /\ leaves[i].status = "Approved") =>
                    /\ lastCall.locals[1].leave_days >= 5
                    /\ lastCall.locals[1].unpaid_leave_days >= 5
    /\ lastCall.op = "run" =>
            \A i \in DOMAIN lastCall.results :
                NoApprovedLeave(lastCall.results[i].employee_id) =>
                    /\ lastCall.results[i].deductions = 0
                    /\ salary[lastCall.results[i].id].deductions = 0

\* a calculation that found a row with a deduction, after the leave behind the
\* deduction was rejected or cancelled, and stored no deduction
C20_Witness ==
    /\ lastCall.op = "calc"
    /\ lastCall.prev_row # NULL
    /\ lastCall.prev_row[1].deductions > 0
    /\ lastCall.row[1].deductions = 0
    /\ lastCall.row[1].net_salary > lastCall.prev_row[1].net_salary
    /\ Len(leaves) >= 1
    /\ leaves[1].status \in {"Rejected", "Cancelled"}

\* the leave types of the model that spell an unpaid category in some case
UnpaidSpellings == {"Unpaid", "UNPAID", "LOP", "without pay", "Without Pay"}

\* the leaves of a table with, or without, such a type
LeavesSpelled(lvs, unpaid) ==
    SelectSeq(lvs, LAMBDA lv : (lv.leave_type \in UnpaidSpellings) = unpaid)

\* C21: unpaid_leave_days of a calculation is the counted days of the leaves
\* whose type is "unpaid", "lop" or "without pay" in any case, and the counted
\* days of the leaves of any other type, the empty one included, are the rest
C21_UnpaidTypes ==
    (lastCall.op = "calc" /\ lastCall.locals # NULL) =>
        LET first == MkDate(lastCall.year, lastCall.month, 1)
            last  == MkDate(lastCall.year, lastCall.month,
                            DaysInMonth(lastCall.year, lastCall.month))
        IN  /\ lastCall.locals[1].unpaid_leave_days =
                    ClippedLeaveDays(LeavesSpelled(leaves, TRUE),
                                     lastCall.employee_id, first, last)
            /\ lastCall.locals[1].leave_days - lastCall.locals[1].unpaid_leave_days =
                    ClippedLeaveDays(LeavesSpelled(leaves, FALSE),
                                     lastCall.employee_id, first, last)

\* a calculation over an Approved leave of type "Without Pay", all of whose
\* counted days are unpaid
C21_Witness ==
    /\ lastCall.op = "calc"
    /\ lastCall.locals # NULL
    /\ Len(leaves) = 1
    /\ leaves[1].leave_type = "Without Pay"
    /\ lastCall.locals[1].unpaid_leave_days > 0
    /\ lastCall.locals[1].unpaid_leave_days = lastCall.locals[1].leave_days
    /\ lastCall.row[1].deductions > 0

\* the rows of a table that are PRESENT rows of the employee dated in the month
\* of 2025, counted row by row
RECURSIVE PresentRowsIn(_, _, _)
PresentRowsIn(att, employee_id, month) ==
    IF att = <<>> THEN 0
    ELSE (IF /\ Head(att).employee_id = employee_id
             /\ Head(att).status = "PRESENT"
             /\ Head(att).date - D(month, 1) \in 0..(DaysInMonth(2025, month) - 1)
          THEN 1 ELSE 0)
         + PresentRowsIn(Tail(att), employee_id, month)

\* C22: att_count of a calculation is the number of attendance rows of the
\* employee dated in the month with status PRESENT; with the rows of either
\* employee PRESENT on 31 January, Monday 3 February, Saturday 8 February and
\* 3 March, ABSENT on 4 February and WFH on 5 February it is 2 for February
\* and 1 for March
C22_PresentDays ==
    (lastCall.op = "calc" /\ lastCall.locals # NULL /\ lastCall.year = 2025) =>
        /\ lastCall.locals[1].att_count =
                PresentRowsIn(attendance1, lastCall.employee_id, lastCall.month)
        /\ attendance1 = WithIds(mixed_rows(1) \o mixed_rows(2)) =>
                lastCall.locals[1].att_count = IF lastCall.month = 2 THEN 2 ELSE 1

\* a February calculation over those rows
C22_Witness ==
    /\ lastCall.op = "calc"
    /\ lastCall.locals # NULL
    /\ lastCall.month = 2
    /\ attendance1 = WithIds(mixed_rows(1) \o mixed_rows(2))
    /\ lastCall.locals[1].att_count = 2
    /\ lastCall.locals[1].paid_days >= 2

\* the PDF step of the run for the employee at position i recorded a file
PdfStepDone(cfg, i) ==
    /\ cfg.generate_pdf
    /\ cfg.pdf_generator
    /\ cfg.pdfRaiseAt # i
    /\ cfg.shape # "bytes_oserror"

\* C23: after a run, the row of each employee has the base_salary, deductions
\* and net_salary of the calculation, whatever the PDF and email steps did; its
\* slip_file is the generated file's name when the PDF step succeeded and is as
\* before the run when it failed or was not asked for; no other row changed
C23_PdfStepOnlySlip ==
    [][(lastCall'.op = "run" /\ ValidMonth(lastCall'.month)) =>
        LET cfg == lastCall'.cfg[1]
            res == lastCall'.results
            ids == {res[i].id : i \in DOMAIN res}
        IN  /\ \A i \in DOMAIN res :
                  LET r == salary'[res[i].id]
                  IN  /\ r = res[i]
                      /\ SameFigures(r, Figures(attendance1, leaves, employee1[i],
                                                lastCall'.year, lastCall'.month))
                      /\ r.slip_file =
                            IF PdfStepDone(cfg, i)
                            THEN Some(CASE cfg.shape = "tuple" -> "slip.pdf"
                                        [] cfg.shape = "bytes" ->
                                             "salary_" \o IntStr(r.id) \o "_t.pdf"
                                        [] OTHER -> "res")
                            ELSE IF r.id \in DOMAIN salary
                                 THEN salary[r.id].slip_file
                                 ELSE NULL
            /\ \A j \in DOMAIN salary : j \notin ids => salary'[j] = salary[j]
            /\ DOMAIN salary' = DOMAIN salary \cup ids
      ]_vars

\* a run whose generator returned bytes, failed for the first employee and
\* whose sender failed, with the figures of the first and the file of the second
C23_Witness ==
    /\ lastCall.op = "run"
    /\ lastCall.cfg[1].shape = "bytes"
    /\ lastCall.cfg[1].pdfRaiseAt = 1
    /\ lastCall.cfg[1].emailRaiseAt = 1
    /\ Len(lastCall.results) = NumEmployees
    /\ lastCall.results[1].net_salary > 0
    /\ salary[lastCall.results[2].id].slip_file = Some("salary_2_t.pdf")

\* the attempts of the last run to send to one address
EmailsTo(addr) == {k \in DOMAIN lastCall.emails : lastCall.emails[k].to = addr}

\* C24 as stated: in a run with an email_sender, an email is attempted for every
\* processed employee that has an address, and for no employee without one
C24_EmailWheneverSender ==
    (lastCall.op = "run" /\ lastCall.cfg[1].email_sender) =>
        \A i \in DOMAIN lastCall.results :
            IF employee1[i].email # ""
            THEN EmailsTo(employee1[i].email) # {}
            ELSE EmailsTo(employee1[i].email) = {}

\* C24 amended: in a run, one email is attempted for a processed employee when
\* generate_pdf is set with a pdf_generator, the PDF step of that employee
\* succeeded, an email_sender is supplied and the employee has an address, and
\* none otherwise; at the attempt the row's slip_file is already the generated
\* file's name in the table
C24_EmailAfterSlip ==
    lastCall.op = "run" =>
        /\ \A i \in DOMAIN lastCall.results :
              IF /\ lastCall.cfg[1].email_sender
                 /\ employee1[i].email # ""
                 /\ PdfStepDone(lastCall.cfg[1], i)
              THEN /\ Cardinality(EmailsTo(employee1[i].email)) = 1
                   /\ \A k \in EmailsTo(employee1[i].email) :
                        /\ lastCall.emails[k].slip_file # NULL
                        /\ lastCall.emails[k].slip_file = lastCall.results[i].slip_file
                        /\ lastCall.emails[k].month = lastCall.results[i].month
              ELSE EmailsTo(employee1[i].email) = {}
        /\ \A k \in DOMAIN lastCall.emails :
              \E i \in DOMAIN lastCall.results : lastCall.emails[k].to = employee1[i].email

\* a run that recorded a payslip for both employees and attempted one email, to
\* the employee with an address
C24_Witness ==
    /\ lastCall.op = "run"
    /\ lastCall.cfg[1].email_sender
    /\ Len(lastCall.results) = NumEmployees
    /\ lastCall.results[2].slip_file # NULL
    /\ employee1[2].email = ""
    /\ EmailsTo(employee1[1].email) # {}
    /\ \A k \in DOMAIN lastCall.emails : lastCall.emails[k].to # ""

\* C25: no two Attendance rows have the same (employee_id, date)
C25_OneRowPerDay ==
    \A i, j \in DOMAIN attendance1 :
        (/\ attendance1[i].employee_id = attendance1[j].employee_id
         /\ attendance1[i].date = attendance1[j].date) => i = j

\* what a request that returns in this step must answer and leave unchanged,
\* by what its lookup read
CheckAnswers(q) ==
    /\ (q.op = "check_out" /\ q.seen = NULL) =>
            /\ lastCall'.ret = Some("404")
            /\ attendance1' = attendance1
    /\ (q.op = "check_out" /\ q.seen # NULL /\ q.seen[1].check_in = NULL) =>
            /\ lastCall'.ret = Some("400")
            /\ attendance1' = attendance1
    /\ (/\ q.op = "check_out"
        /\ q.seen # NULL
        /\ q.seen[1].check_in # NULL
        /\ q.seen[1].check_out # NULL) =>
            /\ lastCall'.ret = Some("already")
            /\ attendance1' = attendance1
    /\ (q.op = "check_in" /\ q.seen # NULL /\ q.seen[1].check_in # NULL) =>
            /\ lastCall'.ret = Some("already")
            /\ attendance1' = attendance1

\* C26: in every state a row with check_out has check_in; a check_out request
\* that finds no row of today answers 404 and one that finds a row without
\* check_in answers 400, changing nothing; a check_in (check_out) request that
\* finds check_in (check_out) set answers success = false and changes nothing
C26_CheckOrdering ==
    /\ [](\A i \in DOMAIN attendance1 :
            attendance1[i].check_out # NULL => attendance1[i].check_in # NULL)
    /\ [][\A s \in Sessions :
            (sess[s].pc = "att_found" /\ sess'[s].pc = "idle") => CheckAnswers(sess[s])
         ]_vars

\* a check_out request answered "Already checked out" on a row whose check_out
\* an earlier request had set, and which still has that time
C26_Witness ==
    /\ lastCall.op = "check_out"
    /\ lastCall.ret = Some("already")
    /\ lastCall.prev_row # NULL
    /\ lastCall.prev_row[1].check_out = Some(10)
    /\ attendance1[lastCall.prev_row[1].id] = lastCall.prev_row[1]

\* C27: no two leaves of one employee that are neither Cancelled nor Rejected
\* have overlapping [from_date, to_date] ranges
C27_NoOverlappingLeaves ==
    \A i, j \in DOMAIN leaves :
        (/\ i # j
         /\ leaves[i].employee_id = leaves[j].employee_id
         /\ leaves[i].status \notin {"Cancelled", "Rejected"}
         /\ leaves[j].status \notin {"Cancelled", "Rejected"}) =>
            \/ leaves[i].to_date < leaves[j].from_date
            \/ leaves[j].to_date < leaves[i].from_date

\* C28: in every calculation over leaves made by the leave operations,
\* unpaid_leave_days <= total_working_days, and the row has
\* deductions <= base_salary
C28_UnpaidWithinMonth ==
    (lastCall.op = "calc" /\ lastCall.locals # NULL) =>
        /\ lastCall.locals[1].unpaid_leave_days <= lastCall.locals[1].total_working_days
        /\ lastCall.row[1].deductions <= lastCall.row[1].base_salary

\* C29: once no request is between its load and its save, the notifications
\* file holds one record per append made by notify_endpoint, and no two
\* records of the file have the same id
C29_NoNotificationLost ==
    (\A s \in Sessions : sess[s].pc = "idle") =>
        /\ Len(notifications) = Len(lastCall.results)
        /\ \A i, j \in DOMAIN notifications :
              i # j => notifications[i].id # notifications[j].id

\* C30: an employee's task_action deletes no task and changes no title, changes
\* no task other than the one named, and changes the status or assignee of
\* that task only if it was assigned to the employee, or was unassigned and
\* the action is accept
C30_EmployeeActionsOwnTasks ==
    (lastCall.op = "task_action" /\ lastCall.args[1] = "employee") =>
        /\ Len(tasks) = Len(lastCall.before)
        /\ \A i \in DOMAIN tasks :
              LET old == lastCall.before[i]
                  new == tasks[i]
              IN  /\ new.id = old.id
                  /\ new.title = old.title
                  /\ new # old =>
                        /\ old.id = lastCall.args[4]
                        /\ \/ old.assigned_to = Some(lastCall.args[2])
                           \/ old.assigned_to = NULL /\ lastCall.args[3] = "accept"

====
